---- MODULE Spec2Model ----
(***************************************************************************)
(* libSmeagol: Pocket / TimerPocket / NonVolatilePocket.                    *)
(*                                                                         *)
(* The model follows one NonVolatilePocket instance: its in-memory         *)
(* preferences, the timer state of TimerPocket, the background threads     *)
(* running TimerPocket.__run, one caller thread using the public API, and  *)
(* the two paths the instance touches on disk (the preferences file and    *)
(* its ".new" sibling), at the level of inodes and file descriptors.       *)
(***************************************************************************)
EXTENDS Integers, Sequences, FiniteSets, TLC

(***************************************************************************)
(* Bounds of the model.                                                    *)
(***************************************************************************)
\* The number of thread objects running __run that can be alive at once.
MaxLoops == 2
\* The number of serialized tokens one write() system call carries.
ChunkLen == 2
\* timer_interval, the save_interval given to the constructor.
Interval == 2
\* The call depth at which the interpreter raises RecursionError.
RecursionLimit == 3

\* TimerPocket.__SLEEP_INTERVAL
SLEEP_INTERVAL == 1

\* Python's None as the value of __last_timer_check.
None == -1

(***************************************************************************)
(* Values: the preferences dictionary and its JSON text.                   *)
(***************************************************************************)
Keys == {"a", "b"}
\* sort_keys=True: the order keys are written in.
KeyOrder == <<"a", "b">>
Values == {"1"}
\* A stored None (JSON null).
Null == "null"
\* Marks a key that is not in a dictionary.
Absent == "absent"

Dicts == [Keys -> Values \cup {Null, Absent}]

\* A dictionary that is not empty.
StaleDict == [k \in Keys |-> IF k = "a" THEN "1" ELSE Absent]

EmptyDict == [k \in Keys |-> Absent]

(***************************************************************************)
(* Typed values.  A value is named by a string: a plain name is a Python   *)
(* str with that content, "b:", "i:", "f:", "l:" and "d:" mark a bool, an  *)
(* int, a float, a list and a dict.                                        *)
(***************************************************************************)
Bools == {"b:True", "b:False"}
Ints == {"i:0", "i:1"}
Floats == {"f:0.0", "f:1.0", "f:1.5", "f:inf"}
Strs == {"no", "0", "1", "1.5", "1,5", "abc"}
Lists == {"l:[1]", "l:[1, 3]"}
\* The nested mappings: {}, {"n": {}} and {"n": {"x": "1"}}.
NestedValues == {"d:{}", "d:{n:{}}", "d:{n:{x:1}}"}
PyValues == {Null} \cup Bools \cup Ints \cup Floats \cup Strs \cup Lists \cup NestedValues

\* type(value)
TypeOf(v) ==
    CASE v = Null -> "NoneType"
      [] v \in Bools -> "bool"
      [] v \in Ints -> "int"
      [] v \in Floats -> "float"
      [] v \in Lists -> "list"
      [] v \in NestedValues -> "dict"
      [] OTHER -> "str"

\* Python's ==: a bool, an int and a float of the same number are equal.
PyKey(v) ==
    CASE v \in {"b:True", "i:1", "f:1.0"} -> "n:1"
      [] v \in {"b:False", "i:0", "f:0.0"} -> "n:0"
      [] OTHER -> v

\* A comparison that never finds two values equal.
NeverEq(x, y) == FALSE

PyEq(x, y) == PyKey(x) = PyKey(y)

\* What a conversion does when it does not return a value.
Raises == {"ValueError", "TypeError", "OverflowError"}

\* int(value)
ToInt(v) ==
    CASE v \in {"b:True", "i:1", "f:1.0", "f:1.5", "1"} -> "i:1"
      [] v \in {"b:False", "i:0", "f:0.0", "0"} -> "i:0"
      [] v = "f:inf" -> "OverflowError"
      [] TypeOf(v) = "str" -> "ValueError"
      [] OTHER -> "TypeError"

\* float(value)
ToFloat(v) ==
    CASE v \in {"b:True", "i:1", "f:1.0", "1"} -> "f:1.0"
      [] v \in {"b:False", "i:0", "f:0.0", "0"} -> "f:0.0"
      [] v \in {"f:1.5", "1.5"} -> "f:1.5"
      [] v = "f:inf" -> "f:inf"
      [] TypeOf(v) = "str" -> "ValueError"
      [] OTHER -> "TypeError"

\* str(value)
ToStr(v) ==
    CASE v = Null -> "None"
      [] v = "b:True" -> "True"
      [] v = "b:False" -> "False"
      [] v = "i:0" -> "0"
      [] v = "i:1" -> "1"
      [] v = "f:0.0" -> "0.0"
      [] v = "f:1.0" -> "1.0"
      [] v = "f:1.5" -> "1.5"
      [] v = "f:inf" -> "inf"
      [] v = "l:[1]" -> "[1]"
      [] v = "l:[1, 3]" -> "[1, 3]"
      [] v = "d:{}" -> "{}"
      [] v = "d:{n:{}}" -> "{'n': {}}"
      [] v = "d:{n:{x:1}}" -> "{'n': {'x': '1'}}"
      [] OTHER -> v

\* bool(value) of a value that is not a str
ToBool(v) ==
    IF v \in {Null, "b:False", "i:0", "f:0.0", "d:{}"} THEN "b:False" ELSE "b:True"

\* to_type(value)
Convert(v, to_type) ==
    CASE to_type = "int" -> ToInt(v)
      [] to_type = "float" -> ToFloat(v)
      [] to_type = "str" -> ToStr(v)
      [] to_type = "bool" -> ToBool(v)

Types == {"int", "float", "str", "bool"}

\* self.__decimal_number_pattern.match(value)
DecimalNumber(v) == v \in {"0", "1", "1.5", "1,5"}

\* The try block of Pocket.__castSafe: the value it returns or the exception
\* it raises.  Of a str asked as bool: the words for false, then
\* int(self.__castSafe(value, float)) != 0 for a decimal number, where the
\* inner cast's default is None and int(None) raises TypeError.
Cast(v, to_type) ==
    IF to_type = "bool" /\ TypeOf(v) = "str"
    THEN IF v \in {"no", "false", "0"} THEN "b:False"
         ELSE IF DecimalNumber(v)
              THEN LET f == ToFloat(v)
                   IN  IF f = "ValueError" THEN "TypeError"
                       ELSE IF f \in Raises THEN f
                       ELSE IF ToInt(f) \in Raises THEN ToInt(f)
                       ELSE IF ToInt(f) # "i:0" THEN "b:True" ELSE "b:False"
              ELSE "b:True"
    ELSE Convert(v, to_type)

\* Pocket.__castSafe: except ValueError gives the default, any other
\* exception leaves the method.
CastSafe(v, to_type, default) ==
    IF Cast(v, to_type) = "ValueError" THEN default ELSE Cast(v, to_type)

\* Tokens of the JSON text.
TokOpen == <<"{", "">>
TokClose == <<"}", "">>
TokNul == <<"nul", "">>

RECURSIVE Items(_, _)
Items(d, i) ==
    IF i > Len(KeyOrder) THEN <<>>
    ELSE (IF d[KeyOrder[i]] # Absent
             THEN << <<KeyOrder[i], d[KeyOrder[i]]>> >>
             ELSE <<>>) \o Items(d, i + 1)

\* json.dump(preferences, f, indent=4, sort_keys=True)
JsonDump(d) == <<TokOpen>> \o Items(d, 1) \o <<TokClose>>

\* json.load succeeds on: "{", members, "}" and nothing else.
JsonValid(c) ==
    /\ Len(c) >= 2
    /\ c[1] = TokOpen
    /\ c[Len(c)] = TokClose
    /\ \A i \in 2..(Len(c) - 1) : c[i][1] \in Keys

Last(S) == CHOOSE x \in S : \A y \in S : y <= x

\* json.load: a repeated member name keeps the last value.
JsonLoad(c) ==
    [k \in Keys |->
        LET at == {i \in 2..(Len(c) - 1) : c[i][1] = k}
        IN  IF at = {} THEN Absent ELSE c[Last(at)][2]]

Min(x, y) == IF x < y THEN x ELSE y
Max(x, y) == IF x > y THEN x ELSE y

(***************************************************************************)
(* Threads and files.                                                      *)
(***************************************************************************)
\* The caller of the public API (the main thread).
Caller == 0
\* Thread objects created by __startThread.
LoopIds == 1..MaxLoops
Threads == 0..MaxLoops

\* An inode per path plus one per open descriptor.
Inodes == 1..(MaxLoops + 3)
NoFile == 0

(***************************************************************************)
(* Time.  The code reads time.monotonic() and only ever compares and       *)
(* subtracts: last_timer_check + interval < now, last_timer_check +        *)
(* interval - now, and sleeps for a duration.  The model therefore keeps   *)
(* every timestamp x as the distance now - x from the present, and every   *)
(* sleep as the time it still has to last; Tick moves the present by one   *)
(* unit.  A distance that is past the largest value the code or a claim    *)
(* compares it with stays there.                                           *)
(***************************************************************************)
\* now - last_timer_check is only compared with the interval.
MaxAge == Interval + 1

VARIABLES
    prefs,             \* Pocket.__preferences
    last_timer_check,  \* now - TimerPocket.__last_timer_check, or None
    running,           \* TimerPocket.__running
    finished,          \* TimerPocket.__thread_finished_event is set
    pc,                \* where each thread is
    wake,              \* how long the time.sleep() of a loop thread still lasts
    snap,              \* __save: preferences (the copy getAll() returned)
    fd,                \* __save: the inode the open file f writes to
    off,               \* __save: the file position of f
    dirExists,         \* the directory of the preferences file exists
    path,              \* the inode at the preferences file / the ".new" file
    ino,               \* the content of each inode
    op,                \* the public method the caller is in
    restart,           \* erase: restart_after_erase
    saved,             \* backupAndSetup: saved
    toAdd,             \* backupAndSetup: settings_to_add
    idx,               \* backupAndSetup: the number of set() calls done
    sinceErase,        \* history: what the caller did since erase(False)
    sinceChange,       \* history: now - the time of the latest change event
    sinceFlush,        \* history: now - the time the latest flush by __run began
    sub,               \* the sub-pockets the caller obtained with getAsSubPocket
    call,              \* history: the latest call of a Pocket accessor, and its outcome
    lock,              \* the thread that holds Pocket.__lock of the root store, or None
    sinceStop,         \* history: how long the loop slept since stop() began to wait
    sig                \* the Signal objects: their slots, and the latest call and its outcome

vars == <<prefs, last_timer_check, running, finished, pc, wake, snap, fd,
          off, dirExists, path, ino, op, restart, saved, toAdd, idx,
          sinceErase, sinceChange, sinceFlush, sub, call, lock, sinceStop, sig>>

timerVars == <<last_timer_check, running, finished>>
saveVars == <<snap, fd, off>>
diskVars == <<dirExists, path, ino>>
callVars == <<op, restart, saved, toAdd, idx>>
histVars == <<sinceErase, sinceChange, sinceFlush>>
apiVars == <<sub, call, lock, sinceStop, sig>>

(***************************************************************************)
(* The file system.                                                        *)
(***************************************************************************)
Referenced(i, p, f) ==
    \/ p.target = i
    \/ p.temp = i
    \/ \E t \in Threads : f[t] = i

\* An inode no path and no descriptor refers to is gone.
Reclaim(n, p, f) ==
    [i \in Inodes |-> IF Referenced(i, p, f) THEN n[i] ELSE <<>>]

FreeInode == CHOOSE i \in Inodes :
    /\ ~Referenced(i, path, fd)
    /\ \A j \in Inodes : ~Referenced(j, path, fd) => i <= j

RECURSIVE Nuls(_)
Nuls(n) == IF n <= 0 THEN <<>> ELSE <<TokNul>> \o Nuls(n - 1)

\* write() of chunk at position o: the gap after a truncation reads as NULs.
WriteAt(c, o, chunk) ==
    SubSeq(c, 1, Min(o, Len(c)))
        \o Nuls(o - Len(c))
        \o chunk
        \o SubSeq(c, o + Len(chunk) + 1, Len(c))

TargetContent == IF path.target = NoFile THEN <<>> ELSE ino[path.target]

\* The file holds the JSON text of d.
FileHolds(d) == path.target # NoFile /\ ino[path.target] = JsonDump(d)

(***************************************************************************)
(* Pocket                                                                  *)
(***************************************************************************)
\* TimerPocket._startTimerCheck(reset_start=True):
\* self.__last_timer_check = time.monotonic()
StartTimerCheck == last_timer_check' = 0

\* The key of the root store the caller asks sub-pockets of.
SubKey == "b"

\* No sub-pocket: head is pocket.getAsSubPocket(SubKey), nozzle is
\* head.getAsSubPocket("n"), dict is the dictionary object head wraps, and
\* attached says that this object is the value of SubKey in the root.
NoSub == [head |-> "none", nozzle |-> "none", dict |-> "d:{}", attached |-> FALSE]

\* No accessor was called yet.  name: the accessor; key, arg, type: its key,
\* its value or default, and its to_type; ret: what it returned or raised
\* ("" for nothing); fired: it fired the change event;
\* shared: the object the caller passed or received is the one the store
\* holds.
NoCall == [name |-> "none", key |-> "", arg |-> "", type |-> "", ret |-> "",
           fired |-> FALSE, shared |-> FALSE]

\* self.__preferences[key] = value: the root holds another object at key.
Replaced(k) == IF k = SubKey THEN [sub EXCEPT !.attached = FALSE] ELSE sub

\* (key not in self.__preferences) or (self.__preferences[key] != value)
Differs(k, v) == prefs[k] = Absent \/ ~PyEq(prefs[k], v)

\* Pocket.set, with NonVolatilePocket._handleOnChangeEvent
PocketSet(k, v) ==
    IF Differs(k, v)
    THEN /\ prefs' = [prefs EXCEPT ![k] = v]
         /\ StartTimerCheck
         /\ sinceChange' = 0
         /\ sub' = Replaced(k)
    ELSE UNCHANGED <<prefs, last_timer_check, sinceChange, sub>>

\* A delete that does not look whether the key is there.
DeleteUnchecked(k) ==
    /\ prefs' = [prefs EXCEPT ![k] = Absent]
    /\ StartTimerCheck
    /\ sinceChange' = 0
    /\ sub' = Replaced(k)

\* Pocket.delete, with NonVolatilePocket._handleOnChangeEvent
PocketDelete(k) ==
    IF prefs[k] # Absent
    THEN /\ prefs' = [prefs EXCEPT ![k] = Absent]
         /\ StartTimerCheck
         /\ sinceChange' = 0
         /\ sub' = Replaced(k)
    ELSE UNCHANGED <<prefs, last_timer_check, sinceChange, sub>>

\* NonVolatilePocket.__load: the dictionary handed to _setPreferences
LoadResult ==
    IF path.target # NoFile /\ JsonValid(ino[path.target])
    THEN JsonLoad(ino[path.target])
    ELSE EmptyDict

(***************************************************************************)
(* Signal: the slots connected to each signal, and the latest call.        *)
(***************************************************************************)
\* Two Signal objects, one function, and one object with two methods.
Sigs == {"s1", "s2"}
Funcs == {"f"}
Methods == {"m1", "m2"}
Connectors == Sigs \cup Funcs \cup Methods

\* Signal.__init__: __functions = set(), __methods = WeakKeyDictionary(),
\* __signals = WeakSet().  dest[s] says that the object is a key of
\* __methods of s, methods[s] is the set stored at that key.
NoSignals ==
    [functions |-> [s \in Sigs |-> {}],
     dest      |-> [s \in Sigs |-> FALSE],
     methods   |-> [s \in Sigs |-> {}],
     signals   |-> [s \in Sigs |-> {}],
     op        |-> "none",
     at        |-> "s1",
     conn      |-> "f",
     raised    |-> "none",
     called    |-> {}]

\* Everything but the signals.
storeVars == <<prefs, last_timer_check, running, finished, pc, wake, snap, fd,
               off, dirExists, path, ino, op, restart, saved, toAdd, idx,
               sinceErase, sinceChange, sinceFlush, sub, call, lock,
               sinceStop>>

\* Signal.connect
Connect(s, c) ==
    IF c \in Sigs
    THEN IF c = s
         THEN sig
         ELSE [sig EXCEPT !.signals[s] = @ \cup {c}]
    ELSE IF c \in Methods
    THEN [sig EXCEPT !.dest[s] = TRUE, !.methods[s] = @ \cup {c}]
    ELSE [sig EXCEPT !.functions[s] = @ \cup {c}]

\* self.__methods[connector.__self__].remove(connector.__func__): set.remove
\* of an element that is not in the set raises KeyError.
RemoveRaises(s, c) == c \notin sig.methods[s]

\* Signal.disconnect: the exception it ends with, or "none"
DisconnectRaised(s, c) ==
    IF c \in sig.signals[s] THEN "none"
    ELSE IF c \in Methods /\ sig.dest[s] /\ RemoveRaises(s, c) THEN "KeyError"
    ELSE "none"

\* Signal.disconnect: the slots afterwards
Disconnect(s, c) ==
    IF c \in sig.signals[s]
    THEN [sig EXCEPT !.signals[s] = @ \ {c}]
    ELSE IF c \in Methods /\ sig.dest[s]
    THEN [sig EXCEPT !.methods[s] = @ \ {c}]
    ELSE IF c \in sig.functions[s]
    THEN [sig EXCEPT !.functions[s] = @ \ {c}]
    ELSE sig

\* Signal.disconnectAll
DisconnectAll(s) ==
    [sig EXCEPT !.functions[s] = {}, !.dest[s] = FALSE, !.methods[s] = {},
                !.signals[s] = {}]

\* Signal.emit at call depth d: the interpreter raises RecursionError when
\* the depth passes its limit.
RECURSIVE EmitRaises(_, _)
EmitRaises(s, d) ==
    IF d > RecursionLimit
    THEN TRUE
    ELSE \E t \in sig.signals[s] : EmitRaises(t, d + 1)

\* Signal.emit at call depth d: the slots it calls, its own and those of the
\* signals connected to it.
RECURSIVE EmitCalls(_, _)
EmitCalls(s, d) ==
    IF d > RecursionLimit
    THEN {}
    ELSE sig.functions[s] \cup sig.methods[s]
             \cup UNION {EmitCalls(t, d + 1) : t \in sig.signals[s]}

\* The outcome of a call of Signal s with connector c.
Outcome(state, name, s, c, exception, slots) ==
    [state EXCEPT !.op = name, !.at = s, !.conn = c, !.raised = exception,
                  !.called = slots]

\* signal.connect(connector)
SigConnect(s, c) ==
    /\ sig' = Outcome(Connect(s, c), "connect", s, c, "none", {})
    /\ UNCHANGED storeVars

\* signal.disconnect(connector)
SigDisconnect(s, c) ==
    /\ sig' = Outcome(Disconnect(s, c), "disconnect", s, c,
                      DisconnectRaised(s, c), {})
    /\ UNCHANGED storeVars

\* signal.disconnectAll()
SigDisconnectAll(s) ==
    /\ sig' = Outcome(DisconnectAll(s), "disconnectAll", s, "f", "none", {})
    /\ UNCHANGED storeVars

\* signal.emit()
SigEmit(s) ==
    /\ sig' = Outcome(sig, "emit", s, "f",
                      IF EmitRaises(s, 1) THEN "RecursionError" ELSE "none",
                      EmitCalls(s, 1))
    /\ UNCHANGED storeVars

SignalCalls ==
    \/ \E s \in Sigs, c \in Connectors : SigConnect(s, c)
    \/ \E s \in Sigs, c \in Connectors : SigDisconnect(s, c)
    \/ \E s \in Sigs : SigDisconnectAll(s)
    \/ \E s \in Sigs : SigEmit(s)

(***************************************************************************)
(* After construction (NonVolatilePocket.__init__): the file was loaded,   *)
(* the first thread runs __run and the timer check was started.            *)
(***************************************************************************)
\* What the constructor can find on disk: <<directory, file content>>.
InitialDisks ==
    { <<FALSE, <<>>>>,
      <<TRUE, JsonDump([EmptyDict EXCEPT !["a"] = "1"])>>,
      <<TRUE, <<TokOpen, <<"a", "1">>>>>> }

Init ==
    /\ \E d \in InitialDisks :
          /\ dirExists = d[1]
          /\ path = [target |-> IF d[2] = <<>> THEN NoFile ELSE 1, temp |-> NoFile]
          /\ ino = [i \in Inodes |-> IF i = 1 THEN d[2] ELSE <<>>]
          /\ prefs = IF JsonValid(d[2]) THEN JsonLoad(d[2]) ELSE EmptyDict
    /\ last_timer_check = 0
    /\ running = TRUE
    /\ finished = FALSE
    /\ pc = [t \in Threads |->
               IF t = Caller THEN "idle" ELSE IF t = 1 THEN "while" ELSE "dead"]
    /\ wake = [t \in LoopIds |-> 0]
    /\ snap = [t \in Threads |-> EmptyDict]
    /\ fd = [t \in Threads |-> NoFile]
    /\ off = [t \in Threads |-> 0]
    /\ op = "none"
    /\ restart = FALSE
    /\ saved = EmptyDict
    /\ toAdd = EmptyDict
    /\ idx = 0
    /\ sinceErase = "none"
    /\ sinceChange = Interval
    /\ sinceFlush = Interval
    /\ sub = NoSub
    /\ call = NoCall
    /\ lock = None
    /\ sinceStop = 0
    /\ sig = NoSignals

\* The process is alive: it has not left through the exit hook or a kill.
Alive == pc[Caller] \notin {"exited", "crashed"}

\* self.__thread_finished_event.wait() of stop() has not returned.
StopWaits == pc[Caller] \in {"stop_wait", "erase_wait"} /\ ~finished

\* Every live loop thread is inside time.sleep(), with time left to sleep.
LoopsAsleep ==
    \A t \in LoopIds :
        pc[t] # "dead" => (pc[t] \in {"sleep", "sleep_rem"} /\ wake[t] > 0)

\* One unit of time passes.
Tick ==
    /\ Alive
    /\ last_timer_check' =
          IF last_timer_check = None THEN None
          ELSE Min(last_timer_check + 1, MaxAge)
    /\ wake' = [t \in LoopIds |-> Max(wake[t] - 1, 0)]
    /\ sinceChange' = Min(sinceChange + 1, Interval)
    /\ sinceFlush' = Min(sinceFlush + 1, Interval)
    /\ sinceStop' = IF StopWaits /\ LoopsAsleep
                    THEN Min(sinceStop + 1, SLEEP_INTERVAL + 1)
                    ELSE sinceStop
    /\ UNCHANGED sig
    /\ UNCHANGED <<prefs, running, finished, pc, saveVars, diskVars, callVars,
                   sinceErase, sub, call, lock>>

(***************************************************************************)
(* NonVolatilePocket.__save, one step per system call.                     *)
(***************************************************************************)
\* A save that writes the preferences file in place.
TempPathInPlace == "target"

\* temp_filename = f"{self.__preferences_file}.new"
TempPath == "temp"

\* preferences = self.getAll()
SaveSnapshot(t) ==
    /\ snap' = [snap EXCEPT ![t] = prefs]
    /\ pc' = [pc EXCEPT ![t] = IF dirExists THEN "s_open" ELSE "s_mkdir"]

\* os.makedirs(directory)
SaveMkdir(t) ==
    /\ Alive
    /\ pc[t] = "s_mkdir"
    /\ dirExists' = TRUE
    /\ pc' = [pc EXCEPT ![t] = "s_open"]
    /\ UNCHANGED <<prefs, timerVars, wake, saveVars, path, ino, callVars,
                   histVars>>
    /\ UNCHANGED apiVars

\* open(temp_filename, "w"): creates the file, or truncates the one there.
SaveOpen(t) ==
    /\ Alive
    /\ pc[t] = "s_open"
    /\ LET i == IF path[TempPath] # NoFile THEN path[TempPath] ELSE FreeInode
       IN  /\ path' = [path EXCEPT ![TempPath] = i]
           /\ ino' = [ino EXCEPT ![i] = <<>>]
           /\ fd' = [fd EXCEPT ![t] = i]
    /\ off' = [off EXCEPT ![t] = 0]
    /\ pc' = [pc EXCEPT ![t] = "s_write"]
    /\ UNCHANGED <<prefs, timerVars, wake, snap, dirExists, callVars,
                   histVars>>
    /\ UNCHANGED apiVars

\* json.dump / f.flush / os.fsync / close: the text reaches the file in
\* chunks of ChunkLen tokens, each written at the descriptor's position.
SaveWrite(t) ==
    /\ Alive
    /\ pc[t] = "s_write"
    /\ LET text == JsonDump(snap[t])
           upto == Min(off[t] + ChunkLen, Len(text))
           chunk == SubSeq(text, off[t] + 1, upto)
           written == [ino EXCEPT ![fd[t]] = WriteAt(ino[fd[t]], off[t], chunk)]
       IN  IF upto < Len(text)
           THEN /\ ino' = written
                /\ off' = [off EXCEPT ![t] = upto]
                /\ UNCHANGED <<fd, pc>>
           ELSE /\ fd' = [fd EXCEPT ![t] = NoFile]
                /\ ino' = Reclaim(written, path, fd')
                /\ off' = [off EXCEPT ![t] = 0]
                /\ pc' = [pc EXCEPT ![t] = "s_rename"]
    /\ UNCHANGED <<prefs, timerVars, wake, snap, dirExists, path, callVars,
                   histVars>>
    /\ UNCHANGED apiVars

\* Where a thread continues when __save returns.
AfterSave(t) ==
    IF t # Caller THEN "clear"
    ELSE IF op = "exit" THEN "exit_clear"
    ELSE "idle"

\* os.rename(temp_filename, self.__preferences_file), the directory fsync and
\* os.sync(); a missing ".new" raises, which __save logs and swallows.
SaveRename(t) ==
    /\ Alive
    /\ pc[t] = "s_rename"
    /\ IF path[TempPath] # NoFile
       THEN /\ path' = [target |-> path[TempPath], temp |-> NoFile]
            /\ ino' = Reclaim(ino, path', fd)
       ELSE UNCHANGED <<path, ino>>
    /\ snap' = [snap EXCEPT ![t] = EmptyDict]
    /\ pc' = [pc EXCEPT ![t] = AfterSave(t)]
    /\ IF t = Caller /\ op # "exit"
       THEN /\ op' = "none"
            /\ saved' = EmptyDict
            /\ toAdd' = EmptyDict
            /\ idx' = 0
            /\ UNCHANGED restart
       ELSE UNCHANGED callVars
    /\ UNCHANGED <<prefs, timerVars, wake, fd, off, dirExists, histVars>>
    /\ UNCHANGED apiVars

\* A save whose exception leaves __save.
SaveRaises(t) == "raised"

\* A loop that tries the flush again when a save has failed.
FailedSaveRetries(t) == IF t = Caller THEN AfterSave(t) ELSE "exec"

\* except Exception: log.exception(...), then os.sync(): __save returns as
\* it does after a save that worked.
AfterFailedSave(t) == AfterSave(t)

\* A step of __save raises: os.makedirs, open, json.dump / f.flush / os.fsync
\* (the with statement closes f, what was written stays in ".new"), or
\* os.rename.
SaveFail(t) ==
    /\ Alive
    /\ pc[t] \in {"s_mkdir", "s_open", "s_write", "s_rename"}
    /\ fd' = [fd EXCEPT ![t] = NoFile]
    /\ ino' = Reclaim(ino, path, fd')
    /\ off' = [off EXCEPT ![t] = 0]
    /\ pc' = [pc EXCEPT ![t] = "s_except"]
    /\ UNCHANGED <<prefs, timerVars, wake, snap, dirExists, path, callVars,
                   histVars, apiVars>>

\* The except clause of __save, and its return.
SaveExcept(t) ==
    /\ Alive
    /\ pc[t] = "s_except"
    /\ snap' = [snap EXCEPT ![t] = EmptyDict]
    /\ pc' = [pc EXCEPT ![t] = AfterFailedSave(t)]
    /\ IF t = Caller /\ op # "exit"
       THEN /\ op' = "none"
            /\ saved' = EmptyDict
            /\ toAdd' = EmptyDict
            /\ idx' = 0
            /\ UNCHANGED restart
       ELSE UNCHANGED callVars
    /\ UNCHANGED <<prefs, timerVars, wake, fd, off, diskVars, histVars,
                   apiVars>>

(***************************************************************************)
(* TimerPocket.__run, the loop of a background thread.                     *)
(***************************************************************************)
\* while self.__running: ... finally: self.__thread_finished_event.set()
LoopWhile(t) ==
    /\ Alive
    /\ pc[t] = "while"
    /\ IF running
       THEN /\ pc' = [pc EXCEPT ![t] = "sleep"]
            /\ wake' = [wake EXCEPT ![t] = SLEEP_INTERVAL]
            /\ UNCHANGED finished
       ELSE /\ pc' = [pc EXCEPT ![t] = "dead"]
            /\ finished' = TRUE
            /\ UNCHANGED wake
    /\ UNCHANGED <<prefs, last_timer_check, running, saveVars, diskVars,
                   callVars, histVars>>
    /\ UNCHANGED apiVars

\* time.sleep(self.__SLEEP_INTERVAL); if self.__last_timer_check is not None:
LoopWake(t) ==
    /\ Alive
    /\ pc[t] = "sleep"
    /\ wake[t] = 0
    /\ pc' = [pc EXCEPT ![t] = IF last_timer_check # None THEN "armed" ELSE "while"]
    /\ UNCHANGED <<prefs, timerVars, wake, saveVars, diskVars, callVars,
                   histVars>>
    /\ UNCHANGED apiVars

\* now = time.monotonic()
\* last_timer_check = self.__last_timer_check + self.__timer_interval
\* if last_timer_check < now: ... else: time.sleep(last_timer_check - now)
\* None + int raises TypeError: the thread ends through the finally clause.
LoopDue(t) ==
    /\ Alive
    /\ pc[t] = "armed"
    /\ IF last_timer_check = None
       THEN /\ pc' = [pc EXCEPT ![t] = "dead"]
            /\ finished' = TRUE
            /\ UNCHANGED wake
       ELSE /\ UNCHANGED finished
            /\ IF Interval < last_timer_check
               THEN /\ pc' = [pc EXCEPT ![t] = "exec"]
                    /\ UNCHANGED wake
               ELSE /\ pc' = [pc EXCEPT ![t] = "sleep_rem"]
                    /\ wake' = [wake EXCEPT ![t] = Interval - last_timer_check]
    /\ UNCHANGED <<prefs, last_timer_check, running, saveVars, diskVars,
                   callVars, histVars>>
    /\ UNCHANGED apiVars

\* self.__callExecuteAction(): _executeAction() -> __save() begins
LoopExec(t) ==
    /\ Alive
    /\ pc[t] = "exec"
    /\ SaveSnapshot(t)
    /\ sinceFlush' = 0
    /\ UNCHANGED <<prefs, timerVars, wake, fd, off, diskVars, callVars,
                   sinceErase, sinceChange>>
    /\ UNCHANGED apiVars

\* A loop that leaves the timer as it is after a flush.
LoopKeepsTimer(t) ==
    /\ Alive
    /\ pc[t] = "clear"
    /\ pc' = [pc EXCEPT ![t] = "while"]
    /\ UNCHANGED <<prefs, timerVars, wake, saveVars, diskVars, callVars,
                   histVars>>
    /\ UNCHANGED apiVars

\* self.__clearLastTimerCheck(), the end of __callExecuteAction
LoopClear(t) ==
    /\ Alive
    /\ pc[t] = "clear"
    /\ last_timer_check' = None
    /\ pc' = [pc EXCEPT ![t] = "while"]
    /\ UNCHANGED <<prefs, running, finished, wake, saveVars, diskVars,
                   callVars, histVars>>
    /\ UNCHANGED apiVars

\* the end of time.sleep(last_timer_check - now)
LoopSleepRem(t) ==
    /\ Alive
    /\ pc[t] = "sleep_rem"
    /\ wake[t] = 0
    /\ pc' = [pc EXCEPT ![t] = "while"]
    /\ UNCHANGED <<prefs, timerVars, wake, saveVars, diskVars, callVars,
                   histVars>>
    /\ UNCHANGED apiVars

(***************************************************************************)
(* The public API, called from the caller thread.                          *)
(***************************************************************************)
\* The caller is between two calls.
Idle == Alive /\ pc[Caller] = "idle"

\* A call other than the exit hook ends what erase(False) left behind.
Touched == sinceErase' = "none"

\* pocket.set(k, v)
Set(k, v) ==
    /\ Idle
    /\ PocketSet(k, v)
    /\ UNCHANGED <<running, finished, pc, wake, saveVars, diskVars,
                   callVars, sinceErase, sinceFlush, call>>
    /\ UNCHANGED <<lock, sinceStop, sig>>

\* pocket.delete(k)
Delete(k) ==
    /\ Idle
    /\ PocketDelete(k)
    /\ UNCHANGED <<running, finished, pc, wake, saveVars, diskVars,
                   callVars, sinceErase, sinceFlush, call>>
    /\ UNCHANGED <<lock, sinceStop, sig>>

\* A forceSave that goes through __callExecuteAction and clears the timer.
ForceSaveClears ==
    /\ Idle
    /\ SaveSnapshot(Caller)
    /\ op' = "forceSave"
    /\ Touched
    /\ last_timer_check' = None
    /\ UNCHANGED <<prefs, running, finished, wake, fd, off, diskVars, restart,
                   saved, toAdd, idx, sinceChange, sinceFlush>>
    /\ UNCHANGED apiVars

\* pocket.forceSave(): __save() begins
ForceSave ==
    /\ Idle
    /\ SaveSnapshot(Caller)
    /\ op' = "forceSave"
    /\ Touched
    /\ UNCHANGED <<prefs, timerVars, wake, fd, off, diskVars, restart,
                   saved, toAdd, idx, sinceChange, sinceFlush>>
    /\ UNCHANGED apiVars

\* TimerPocket.stop(): self.__running = False
StopFlag == running' = FALSE

\* TimerPocket.stop(): self.__thread_finished_event.wait() returns
StopWaitOver == finished

\* pocket.stop()
Stop ==
    /\ Idle
    /\ StopFlag
    /\ pc' = [pc EXCEPT ![Caller] = "stop_wait"]
    /\ op' = "stop"
    /\ UNCHANGED <<prefs, last_timer_check, finished, wake, saveVars,
                   diskVars, restart, saved, toAdd, idx, histVars>>
    /\ UNCHANGED apiVars

StopWait ==
    /\ Alive
    /\ pc[Caller] = "stop_wait"
    /\ StopWaitOver
    /\ pc' = [pc EXCEPT ![Caller] = "idle"]
    /\ op' = "none"
    /\ UNCHANGED <<prefs, timerVars, wake, saveVars, diskVars, restart,
                   saved, toAdd, idx, histVars>>
    /\ sinceStop' = 0
    /\ UNCHANGED sig
    /\ UNCHANGED <<sub, call, lock>>

\* A thread object for __startThread: the model bounds how many are alive.
CanStart == ~finished \/ \E t \in LoopIds : pc[t] = "dead"

\* pocket.erase(restart_after_erase=r): self.stop() begins
Erase(r) ==
    /\ Idle
    /\ r => CanStart
    /\ StopFlag
    /\ pc' = [pc EXCEPT ![Caller] = "erase_wait"]
    /\ op' = "erase"
    /\ restart' = r
    /\ Touched
    /\ UNCHANGED <<prefs, last_timer_check, finished, wake, saveVars,
                   diskVars, saved, toAdd, idx, sinceChange, sinceFlush>>
    /\ UNCHANGED apiVars

\* erase: self.stop() returns
EraseWait ==
    /\ Alive
    /\ pc[Caller] = "erase_wait"
    /\ StopWaitOver
    /\ pc' = [pc EXCEPT ![Caller] = "erase_remove"]
    /\ UNCHANGED <<prefs, timerVars, wake, saveVars, diskVars, callVars,
                   histVars>>
    /\ sinceStop' = 0
    /\ UNCHANGED sig
    /\ UNCHANGED <<sub, call, lock>>

\* erase: os.remove(self.__preferences_file); OSError is logged
EraseRemove ==
    /\ Alive
    /\ pc[Caller] = "erase_remove"
    /\ path' = [path EXCEPT !.target = NoFile]
    /\ ino' = Reclaim(ino, path', fd)
    /\ pc' = [pc EXCEPT ![Caller] = "erase_reset"]
    /\ UNCHANGED <<prefs, timerVars, wake, saveVars, dirExists, callVars,
                   histVars>>
    /\ UNCHANGED apiVars

\* erase: self._setPreferences({}); without restart, erase returns here
EraseReset ==
    /\ Alive
    /\ pc[Caller] = "erase_reset"
    /\ prefs' = EmptyDict
    /\ IF restart
       THEN /\ pc' = [pc EXCEPT ![Caller] = "erase_load"]
            /\ UNCHANGED <<op, restart, sinceErase>>
       ELSE /\ pc' = [pc EXCEPT ![Caller] = "idle"]
            /\ op' = "none"
            /\ restart' = FALSE
            /\ sinceErase' = "clean"
    /\ sub' = [sub EXCEPT !.attached = FALSE]
    /\ UNCHANGED <<timerVars, wake, saveVars, diskVars, saved, toAdd, idx,
                   sinceChange, sinceFlush, call>>
    /\ UNCHANGED <<lock, sinceStop, sig>>

\* erase: self.__load()
EraseLoad ==
    /\ Alive
    /\ pc[Caller] = "erase_load"
    /\ prefs' = LoadResult
    /\ pc' = [pc EXCEPT ![Caller] = "erase_start"]
    /\ UNCHANGED <<timerVars, wake, saveVars, diskVars, callVars, histVars>>
    /\ UNCHANGED apiVars

\* The thread object __startThread creates.
NewThread == CHOOSE t \in LoopIds :
    pc[t] = "dead" /\ \A u \in LoopIds : pc[u] = "dead" => t <= u

\* erase: self._start(): __clearLastTimerCheck(), then __startThread()
EraseStart ==
    /\ Alive
    /\ pc[Caller] = "erase_start"
    /\ \E t \in LoopIds : pc[t] = "dead"
    /\ last_timer_check' = None
    /\ running' = TRUE
    /\ pc' = [pc EXCEPT ![Caller] = "erase_arm", ![NewThread] = "while"]
    /\ UNCHANGED <<prefs, finished, wake, saveVars, diskVars, callVars,
                   histVars>>
    /\ UNCHANGED apiVars

\* erase: _startTimerThread's self._startTimerCheck(); erase returns
EraseArm ==
    /\ Alive
    /\ pc[Caller] = "erase_arm"
    /\ StartTimerCheck
    /\ IF op = "bas"
       THEN /\ pc' = [pc EXCEPT ![Caller] = "bas_set"]
            /\ UNCHANGED <<op, restart>>
       ELSE /\ pc' = [pc EXCEPT ![Caller] = "idle"]
            /\ op' = "none"
            /\ restart' = FALSE
    /\ UNCHANGED <<prefs, running, finished, wake, saveVars, diskVars,
                   saved, toAdd, idx, histVars>>
    /\ UNCHANGED apiVars

\* The arguments backupAndSetup is called with in the model.
BackupInputs == {ks \in SUBSET Keys : Cardinality(ks) <= 1}
AddInputs ==
    {d \in [Keys -> Values \cup {Absent}] :
        Cardinality({k \in Keys : d[k] # Absent}) <= 1}

\* backupAndSetup: saved[key] = self.get(key) for each key, then self.erase()
BackupAndSetup(ks, add) ==
    /\ Idle
    /\ CanStart
    /\ saved' = [k \in Keys |->
                   IF k \notin ks THEN Absent
                   ELSE IF prefs[k] = Absent THEN Null ELSE prefs[k]]
    /\ toAdd' = add
    /\ idx' = 0
    /\ StopFlag
    /\ pc' = [pc EXCEPT ![Caller] = "erase_wait"]
    /\ op' = "bas"
    /\ restart' = TRUE
    /\ Touched
    /\ UNCHANGED <<prefs, last_timer_check, finished, wake, saveVars,
                   diskVars, sinceChange, sinceFlush>>
    /\ UNCHANGED apiVars

\* backupAndSetup: the set() calls, saved.items() then settings_to_add
SetCalls == Items(saved, 1) \o Items(toAdd, 1)

\* backupAndSetup: the next self.set(key, value), then self.forceSave()
BackupSet ==
    /\ Alive
    /\ pc[Caller] = "bas_set"
    /\ IF idx < Len(SetCalls)
       THEN /\ PocketSet(SetCalls[idx + 1][1], SetCalls[idx + 1][2])
            /\ idx' = idx + 1
            /\ UNCHANGED <<pc, snap>>
       ELSE /\ SaveSnapshot(Caller)
            /\ UNCHANGED <<prefs, last_timer_check, sinceChange, idx, sub>>
    /\ UNCHANGED <<running, finished, wake, fd, off, diskVars, op, restart,
                   saved, toAdd, sinceErase, sinceFlush, call>>
    /\ UNCHANGED <<lock, sinceStop, sig>>

\* The exit hook atexit runs: __callExecuteAction, __save() begins
ExitHook ==
    /\ Idle
    /\ SaveSnapshot(Caller)
    /\ op' = "exit"
    /\ sinceErase' = IF sinceErase = "clean" THEN "exit" ELSE sinceErase
    /\ UNCHANGED <<prefs, timerVars, wake, fd, off, diskVars, restart,
                   saved, toAdd, idx, sinceChange, sinceFlush>>
    /\ UNCHANGED apiVars

\* The exit hook: __clearLastTimerCheck(); the process ends
ExitClear ==
    /\ pc[Caller] = "exit_clear"
    /\ last_timer_check' = None
    /\ pc' = [pc EXCEPT ![Caller] = "exited"]
    /\ UNCHANGED <<prefs, running, finished, wake, saveVars, diskVars,
                   callVars, histVars>>
    /\ UNCHANGED apiVars

(***************************************************************************)
(* The accessors of Pocket, with what each call was given and gave back.   *)
(***************************************************************************)
\* A get that hands out the stored object itself.
ReturnsReference == TRUE

\* Pocket.get: return copy.deepcopy(result), an object of its own.
DeepCopyShares == FALSE

\* Pocket.get(key, default): self.__preferences.get(key, default)
Get(k, default) == IF prefs[k] = Absent THEN default ELSE prefs[k]

\* A typed write that only stops on an exception.
RejectsRaised(c) == c \in Raises

\* Pocket.__setAsType: the cast raised, or gave None (raise ValueError).
Rejects(c) == c = Null \/ c \in Raises

\* pocket.set(k, v)
CallSet(k, v) ==
    /\ Idle
    /\ PocketSet(k, v)
    /\ call' = [name |-> "set", key |-> k, arg |-> v, type |-> "", ret |-> "",
                fired |-> Differs(k, v), shared |-> Differs(k, v)]
    /\ UNCHANGED <<running, finished, pc, wake, saveVars, diskVars,
                   callVars, sinceErase, sinceFlush>>
    /\ UNCHANGED <<lock, sinceStop, sig>>

\* pocket.get(k, default)
CallGet(k, default) ==
    /\ Idle
    /\ call' = [name |-> "get", key |-> k, arg |-> default, type |-> "",
                ret |-> Get(k, default), fired |-> FALSE,
                shared |-> (prefs[k] # Absent /\ DeepCopyShares)]
    /\ UNCHANGED <<prefs, timerVars, pc, wake, saveVars, diskVars, callVars,
                   histVars, sub>>
    /\ UNCHANGED <<lock, sinceStop, sig>>

\* The caller appends to the list get() returned: value.append(3)
MutateReturned ==
    /\ Idle
    /\ call.name = "get"
    /\ call.ret = "l:[1]"
    /\ call' = [call EXCEPT !.name = "mutate", !.ret = "l:[1, 3]"]
    /\ prefs' = IF call.shared
                THEN [prefs EXCEPT ![call.key] = "l:[1, 3]"]
                ELSE prefs
    /\ UNCHANGED <<timerVars, pc, wake, saveVars, diskVars, callVars,
                   histVars, sub>>
    /\ UNCHANGED <<lock, sinceStop, sig>>

\* pocket.setAsInt / setAsFloat / setAsString / setAsBoolean (k, v)
CallSetAs(to_type, k, v) ==
    /\ Idle
    /\ LET casted == CastSafe(v, to_type, Null)
       IN  IF Rejects(casted)
           THEN /\ call' = [name |-> "setAs", key |-> k, arg |-> v,
                            type |-> to_type,
                            ret |-> IF casted = Null THEN "ValueError" ELSE casted,
                            fired |-> FALSE, shared |-> FALSE]
                /\ UNCHANGED <<prefs, last_timer_check, sinceChange, sub>>
           ELSE /\ PocketSet(k, casted)
                /\ call' = [name |-> "setAs", key |-> k, arg |-> v,
                            type |-> to_type, ret |-> "",
                            fired |-> Differs(k, casted), shared |-> FALSE]
    /\ UNCHANGED <<running, finished, pc, wake, saveVars, diskVars,
                   callVars, sinceErase, sinceFlush>>
    /\ UNCHANGED <<lock, sinceStop, sig>>

\* Pocket.__getAsType
GetAsType(k, default, to_type) ==
    IF Get(k, default) = Null THEN default
    ELSE CastSafe(Get(k, default), to_type, default)

\* pocket.getAsInt / getAsFloat / getAsString / getAsBoolean (k, default)
CallGetAs(to_type, k, default) ==
    /\ Idle
    /\ call' = [name |-> "getAs", key |-> k, arg |-> default, type |-> to_type,
                ret |-> GetAsType(k, default, to_type), fired |-> FALSE,
                shared |-> FALSE]
    /\ UNCHANGED <<prefs, timerVars, pc, wake, saveVars, diskVars, callVars,
                   histVars, sub>>
    /\ UNCHANGED <<lock, sinceStop, sig>>

(***************************************************************************)
(* Lists, dictionaries and Pockets as arguments.  set() stores the object  *)
(* it is given, setAsSubPocket the dictionary of the Pocket it is given.   *)
(***************************************************************************)
\* Pocket objects the caller has built: Pocket({}), Pocket({"n": {}}), ...
Pockets == {"p:{}", "p:{n:{}}", "p:{n:{x:1}}"}

\* value.__preferences of a Pocket
PocketDict(p) ==
    CASE p = "p:{}" -> "d:{}"
      [] p = "p:{n:{}}" -> "d:{n:{}}"
      [] OTHER -> "d:{n:{x:1}}"

\* Pocket(value): the Pocket that wraps the dictionary d
WrapDict(d) ==
    CASE d = "d:{}" -> "p:{}"
      [] d = "d:{n:{}}" -> "p:{n:{}}"
      [] OTHER -> "p:{n:{x:1}}"

\* Every argument passes the isinstance test.
AnyArg(v) == TRUE

\* isinstance(value, Pocket)
IsPocket(v) == v \in Pockets

\* isinstance(value, list)
IsList(v) == v \in Lists

\* The values and the defaults of the calls on SubKey.
ObjectValues == {Null, "b:True", "i:1", "l:[1]", "d:{}", "d:{n:{}}"}
ObjectArgs == ObjectValues \cup {"p:{}", "p:{n:{}}"}
SubDefaults == {Null, "d:{}", "d:{n:{}}"}

\* What a call of the caller leaves alone besides the store and the timer.
callFrame == <<running, finished, pc, wake, saveVars, diskVars, callVars,
               sinceErase, sinceFlush, lock, sinceStop, sig>>

\* pocket.delete(k)
CallDelete(k) ==
    /\ Idle
    /\ PocketDelete(k)
    /\ call' = [name |-> "delete", key |-> k, arg |-> "", type |-> "",
                ret |-> "", fired |-> prefs[k] # Absent, shared |-> FALSE]
    /\ UNCHANGED callFrame

\* pocket.setAsList(k, v)
CallSetAsList(k, v) ==
    /\ Idle
    /\ IF IsList(v)
       THEN /\ PocketSet(k, v)
            /\ call' = [name |-> "setAsList", key |-> k, arg |-> v,
                        type |-> "", ret |-> "", fired |-> Differs(k, v),
                        shared |-> Differs(k, v)]
       ELSE /\ call' = [name |-> "setAsList", key |-> k, arg |-> v,
                        type |-> "", ret |-> "ValueError", fired |-> FALSE,
                        shared |-> FALSE]
            /\ UNCHANGED <<prefs, last_timer_check, sinceChange, sub>>
    /\ UNCHANGED callFrame

\* pocket.setAsSubPocket(k, v): self.set(key, value.__preferences)
CallSetAsSubPocket(k, v) ==
    /\ Idle
    /\ IF IsPocket(v)
       THEN /\ PocketSet(k, PocketDict(v))
            /\ call' = [name |-> "setAsSubPocket", key |-> k, arg |-> v,
                        type |-> "", ret |-> "",
                        fired |-> Differs(k, PocketDict(v)),
                        shared |-> Differs(k, PocketDict(v))]
       ELSE /\ call' = [name |-> "setAsSubPocket", key |-> k, arg |-> v,
                        type |-> "", ret |-> "ValueError", fired |-> FALSE,
                        shared |-> FALSE]
            /\ UNCHANGED <<prefs, last_timer_check, sinceChange, sub>>
    /\ UNCHANGED callFrame

\* The object the store holds after the call recorded in call.
PassedObject == IF IsPocket(call.arg) THEN PocketDict(call.arg) ELSE call.arg

\* value.append(3) on a list, value["n"] = {} on a dictionary, and
\* value.set("n", {}) on a Pocket.
Grown(v) == IF v = "l:[1]" THEN "l:[1, 3]" ELSE "d:{n:{}}"

\* The caller changes the object it passed to set, setAsList or
\* setAsSubPocket.
MutatePassed ==
    /\ Idle
    /\ call.name \in {"set", "setAsList", "setAsSubPocket"}
    /\ call.shared
    /\ PassedObject \in {"l:[1]", "d:{}"}
    /\ prefs[call.key] = PassedObject
    /\ prefs' = [prefs EXCEPT ![call.key] = Grown(PassedObject)]
    /\ call' = [call EXCEPT !.name = "mutate_arg"]
    /\ sub' = Replaced(call.key)
    /\ UNCHANGED <<last_timer_check, sinceChange>>
    /\ UNCHANGED callFrame

\* A default that is always the empty dictionary.
EmptyDefault(default) == "d:{}"

\* if default is None: default = {}
DefaultDict(default) == IF default = Null THEN "d:{}" ELSE default

\* pocket.getAsSubPocket(k, default), seen from its caller
CallGetAsSubPocket(k, default) ==
    /\ Idle
    /\ IF prefs[k] = Absent
       THEN /\ PocketSet(k, DefaultDict(default))
            /\ call' = [name |-> "getAsSubPocket", key |-> k, arg |-> default,
                        type |-> "", ret |-> WrapDict(DefaultDict(default)),
                        fired |-> TRUE, shared |-> TRUE]
       ELSE /\ call' = [name |-> "getAsSubPocket", key |-> k, arg |-> default,
                        type |-> "",
                        ret |-> IF prefs[k] \in NestedValues
                                THEN WrapDict(prefs[k]) ELSE "None",
                        fired |-> FALSE, shared |-> prefs[k] \in NestedValues]
            /\ UNCHANGED <<prefs, last_timer_check, sinceChange, sub>>
    /\ UNCHANGED callFrame

\* Pocket(preferences): None gives an empty store, a dictionary is taken as
\* it is, and a Pocket is copied before "assert isinstance(preferences, dict)"
\* fails on it.
CallInit(preferences) ==
    /\ Idle
    /\ call' = [name |-> "init", key |-> "", arg |-> preferences, type |-> "",
                ret |-> IF IsPocket(preferences) THEN "AssertionError"
                        ELSE WrapDict(DefaultDict(preferences)),
                fired |-> FALSE, shared |-> preferences \in NestedValues]
    /\ UNCHANGED <<prefs, timerVars, pc, wake, saveVars, diskVars, callVars,
                   histVars, sub, lock, sinceStop, sig>>

(***************************************************************************)
(* Sub-pockets.  getAsSubPocket wraps the nested dictionary itself, not a  *)
(* copy, in a new Pocket and connects that Pocket's signal to the bound    *)
(* method _handleOnChangeEvent of the pocket it was asked of; Signal keeps *)
(* bound methods in a WeakKeyDictionary keyed by their object.             *)
(***************************************************************************)
\* NonVolatilePocket._handleOnChangeEvent of the root store is called.
RootEvent == StartTimerCheck /\ sinceChange' = 0

\* Signal.emit of nozzle finds head's method while the object head lives.
HeadAlive == sub.head = "held"

\* A sub-pocket whose writes land in the root whatever the root holds.
SubStoreInRoot(d, reaches) ==
    /\ prefs' = [prefs EXCEPT ![SubKey] = d]
    /\ IF reaches THEN RootEvent ELSE UNCHANGED <<last_timer_check, sinceChange>>

\* A sub-pocket's set or delete changed its dictionary to d and emitted its
\* signal, which reaches the root or not.
SubStore(d, reaches) ==
    /\ prefs' = IF sub.attached THEN [prefs EXCEPT ![SubKey] = d] ELSE prefs
    /\ IF reaches THEN RootEvent ELSE UNCHANGED <<last_timer_check, sinceChange>>

\* head = pocket.getAsSubPocket(SubKey)
GetSubHead ==
    /\ Idle
    /\ sub.head = "none"
    /\ IF prefs[SubKey] = Absent
       THEN /\ prefs' = [prefs EXCEPT ![SubKey] = "d:{}"]
            /\ RootEvent
            /\ sub' = [sub EXCEPT !.head = "held", !.dict = "d:{}",
                                  !.attached = TRUE]
       ELSE /\ sub' = IF prefs[SubKey] \in NestedValues
                      THEN [sub EXCEPT !.head = "held", !.dict = prefs[SubKey],
                                       !.attached = TRUE]
                      ELSE sub
            /\ UNCHANGED <<prefs, last_timer_check, sinceChange>>
    /\ UNCHANGED <<running, finished, pc, wake, saveVars, diskVars, callVars,
                   sinceErase, sinceFlush, call>>
    /\ UNCHANGED <<lock, sinceStop, sig>>

\* nozzle = head.getAsSubPocket("n"): an absent "n" is set to {} in head
GetSubNozzle ==
    /\ Idle
    /\ sub.head = "held"
    /\ sub.nozzle = "none"
    /\ IF sub.dict = "d:{}"
       THEN /\ SubStore("d:{n:{}}", TRUE)
            /\ sub' = [sub EXCEPT !.nozzle = "held", !.dict = "d:{n:{}}"]
       ELSE /\ sub' = [sub EXCEPT !.nozzle = "held"]
            /\ UNCHANGED <<prefs, last_timer_check, sinceChange>>
    /\ UNCHANGED <<running, finished, pc, wake, saveVars, diskVars, callVars,
                   sinceErase, sinceFlush, call>>
    /\ UNCHANGED <<lock, sinceStop, sig>>

\* The caller lets go of head (del head, or head was a temporary of a
\* chained call): the object is freed.
DropHead ==
    /\ Idle
    /\ sub.head = "held"
    /\ sub' = [sub EXCEPT !.head = "dropped"]
    /\ UNCHANGED <<prefs, timerVars, pc, wake, saveVars, diskVars, callVars,
                   histVars, call>>
    /\ UNCHANGED <<lock, sinceStop, sig>>

\* nozzle.set("x", "1")
NozzleSet ==
    /\ Idle
    /\ sub.nozzle = "held"
    /\ IF sub.dict = "d:{n:{}}"
       THEN /\ SubStore("d:{n:{x:1}}", HeadAlive)
            /\ sub' = [sub EXCEPT !.dict = "d:{n:{x:1}}"]
       ELSE UNCHANGED <<prefs, last_timer_check, sinceChange, sub>>
    /\ UNCHANGED <<running, finished, pc, wake, saveVars, diskVars, callVars,
                   sinceErase, sinceFlush, call>>
    /\ UNCHANGED <<lock, sinceStop, sig>>

\* nozzle.delete("x")
NozzleDelete ==
    /\ Idle
    /\ sub.nozzle = "held"
    /\ IF sub.dict = "d:{n:{x:1}}"
       THEN /\ SubStore("d:{n:{}}", HeadAlive)
            /\ sub' = [sub EXCEPT !.dict = "d:{n:{}}"]
       ELSE UNCHANGED <<prefs, last_timer_check, sinceChange, sub>>
    /\ UNCHANGED <<running, finished, pc, wake, saveVars, diskVars, callVars,
                   sinceErase, sinceFlush, call>>
    /\ UNCHANGED <<lock, sinceStop, sig>>

(***************************************************************************)
(* Pocket.__lock.  has, getAll, set, delete, getAsSubPocket and            *)
(* _setPreferences run inside "with self.__lock"; get does not.  Every     *)
(* Pocket has a lock of its own: a sub-pocket locks its lock, not the one  *)
(* of the store whose dictionary it wraps.  The calls below are the calls  *)
(* above in two steps, entry and return, with the lock between them.       *)
(***************************************************************************)
\* A getAll that returns without leaving the with block.
KeepsLock(t) == t

\* getAll: the end of "with self.__lock"
LockAfterGetAll(t) == None

\* Thread t is reading or writing the mapping tree of the root store.
Accessing(t) ==
    pc[t] \in {"in_get", "in_set", "in_sub", "s_copy", "s_copy_rest"}

\* Thread t is in a system call of __save.
InIO(t) == pc[t] \in {"s_mkdir", "s_open", "s_write", "s_rename", "s_except"}

\* pocket.get(k, default) begins: self.__preferences.get(key, default)
GetBegin(k, default) ==
    /\ Idle
    /\ pc' = [pc EXCEPT ![Caller] = "in_get"]
    /\ call' = [NoCall EXCEPT !.name = "get", !.key = k, !.arg = default]
    /\ UNCHANGED <<prefs, timerVars, wake, saveVars, diskVars, callVars,
                   histVars, sub, lock, sinceStop, sig>>

\* pocket.get returns the copy
GetEnd ==
    /\ Alive
    /\ pc[Caller] = "in_get"
    /\ pc' = [pc EXCEPT ![Caller] = "idle"]
    /\ call' = [call EXCEPT !.ret = Get(call.key, call.arg)]
    /\ UNCHANGED <<prefs, timerVars, wake, saveVars, diskVars, callVars,
                   histVars, sub, lock, sinceStop, sig>>

\* pocket.set(k, v) begins: with self.__lock
SetBegin(k, v) ==
    /\ Idle
    /\ lock = None
    /\ lock' = Caller
    /\ pc' = [pc EXCEPT ![Caller] = "in_set"]
    /\ call' = [NoCall EXCEPT !.name = "set", !.key = k, !.arg = v]
    /\ UNCHANGED <<prefs, timerVars, wake, saveVars, diskVars, callVars,
                   histVars, sub, sinceStop, sig>>

\* pocket.set: the body of the with block, and its end
SetEnd ==
    /\ Alive
    /\ pc[Caller] = "in_set"
    /\ PocketSet(call.key, call.arg)
    /\ lock' = None
    /\ pc' = [pc EXCEPT ![Caller] = "idle"]
    /\ call' = [call EXCEPT !.fired = Differs(call.key, call.arg),
                            !.shared = Differs(call.key, call.arg)]
    /\ UNCHANGED <<running, finished, wake, saveVars, diskVars, callVars,
                   sinceErase, sinceFlush, sinceStop, sig>>

\* head.set("n", {}) begins: with self.__lock, the lock of head
HeadSetBegin ==
    /\ Idle
    /\ sub.head = "held"
    /\ pc' = [pc EXCEPT ![Caller] = "in_sub"]
    /\ call' = [NoCall EXCEPT !.name = "head.set", !.key = "n", !.arg = "d:{}"]
    /\ UNCHANGED <<prefs, timerVars, wake, saveVars, diskVars, callVars,
                   histVars, sub, lock, sinceStop, sig>>

\* head.set: the body of the with block, and its end
HeadSetEnd ==
    /\ Alive
    /\ pc[Caller] = "in_sub"
    /\ pc' = [pc EXCEPT ![Caller] = "idle"]
    /\ IF sub.dict = "d:{}"
       THEN /\ SubStore("d:{n:{}}", TRUE)
            /\ sub' = [sub EXCEPT !.dict = "d:{n:{}}"]
            /\ call' = [call EXCEPT !.fired = TRUE]
       ELSE UNCHANGED <<prefs, last_timer_check, sinceChange, sub, call>>
    /\ UNCHANGED <<running, finished, wake, saveVars, diskVars, callVars,
                   sinceErase, sinceFlush, lock, sinceStop, sig>>

\* __callExecuteAction -> __save: preferences = self.getAll() begins,
\* with self.__lock
LockGetAll(t) ==
    /\ Alive
    /\ pc[t] = "exec"
    /\ lock = None
    /\ lock' = t
    /\ pc' = [pc EXCEPT ![t] = "s_copy"]
    /\ sinceFlush' = 0
    /\ UNCHANGED <<prefs, timerVars, wake, saveVars, diskVars, callVars,
                   sinceErase, sinceChange, sub, call, sinceStop, sig>>

\* getAll: copy.deepcopy(self.__preferences) is done, the with block ends
CopyDone(t) ==
    /\ Alive
    /\ pc[t] = "s_copy"
    /\ SaveSnapshot(t)
    /\ lock' = LockAfterGetAll(t)
    /\ UNCHANGED <<prefs, timerVars, wake, fd, off, diskVars, callVars,
                   histVars, sub, call, sinceStop, sig>>

\* copy.deepcopy(self.__preferences) goes through the keys in the order they
\* were inserted: it has copied the value at the first key, "a".  snap holds
\* the store as it is at this instant; the copy keeps its first key.
CopyFirst(t) ==
    /\ Alive
    /\ pc[t] = "s_copy"
    /\ snap' = [snap EXCEPT ![t] = prefs]
    /\ pc' = [pc EXCEPT ![t] = "s_copy_rest"]
    /\ UNCHANGED <<prefs, timerVars, wake, fd, off, diskVars, callVars,
                   histVars, sub, call, lock, sinceStop, sig>>

\* copy.deepcopy copies the value at the second key, SubKey, as it is now;
\* the with block of getAll ends.
CopyRest(t) ==
    /\ Alive
    /\ pc[t] = "s_copy_rest"
    /\ snap' = [snap EXCEPT ![t] = [snap[t] EXCEPT ![SubKey] = prefs[SubKey]]]
    /\ pc' = [pc EXCEPT ![t] = IF dirExists THEN "s_open" ELSE "s_mkdir"]
    /\ lock' = LockAfterGetAll(t)
    /\ UNCHANGED <<prefs, timerVars, wake, fd, off, diskVars, callVars,
                   histVars, sub, call, sinceStop, sig>>

\* head = pocket.getAsSubPocket(SubKey) on a store that holds "a": with
\* self.__lock, and SubKey comes after "a" in the dictionary.
GetSubHeadAfter ==
    /\ lock = None
    /\ prefs["a"] # Absent
    /\ GetSubHead

(***************************************************************************)
(* The process is killed, and started again.                               *)
(***************************************************************************)
\* The operating system ends the process: its threads and open files go,
\* what is on disk stays.
Crash ==
    /\ Alive
    /\ pc' = [t \in Threads |-> IF t = Caller THEN "crashed" ELSE "dead"]
    /\ fd' = [t \in Threads |-> NoFile]
    /\ ino' = Reclaim(ino, path, fd')
    /\ prefs' = EmptyDict
    /\ snap' = [t \in Threads |-> EmptyDict]
    /\ off' = [t \in Threads |-> 0]
    /\ wake' = [t \in LoopIds |-> 0]
    /\ last_timer_check' = None
    /\ running' = FALSE
    /\ finished' = FALSE
    /\ op' = "none"
    /\ restart' = FALSE
    /\ saved' = EmptyDict
    /\ toAdd' = EmptyDict
    /\ idx' = 0
    /\ sub' = NoSub
    /\ call' = NoCall
    /\ lock' = None
    /\ sinceStop' = 0
    /\ UNCHANGED sig
    /\ UNCHANGED <<dirExists, path, histVars>>

\* NonVolatilePocket.__init__ in the next process: __load(), _startTimerThread()
Reboot ==
    /\ pc[Caller] = "crashed"
    /\ prefs' = LoadResult
    /\ running' = TRUE
    /\ pc' = [pc EXCEPT ![Caller] = "idle", ![1] = "while"]
    /\ StartTimerCheck
    /\ UNCHANGED <<finished, wake, saveVars, diskVars, callVars, histVars>>
    /\ UNCHANGED apiVars

\* NonVolatilePocket.__init__ in the next process when open() of the file
\* raises (the file is there and cannot be read): preferences = dict()
RebootUnreadable ==
    /\ pc[Caller] = "crashed"
    /\ path.target # NoFile
    /\ prefs' = EmptyDict
    /\ running' = TRUE
    /\ pc' = [pc EXCEPT ![Caller] = "idle", ![1] = "while"]
    /\ StartTimerCheck
    /\ UNCHANGED <<finished, wake, saveVars, diskVars, callVars, histVars,
                   apiVars>>

(***************************************************************************)
(* The program.                                                            *)
(***************************************************************************)
ChangeKey(k) ==
    \/ \E v \in Values : Set(k, v)
    \/ Delete(k)

ChangeCalls == \E k \in Keys : ChangeKey(k)

StopCalls ==
    \/ Stop
    \/ StopWait

EraseSteps ==
    \/ EraseWait
    \/ EraseRemove
    \/ EraseReset
    \/ EraseLoad
    \/ EraseStart
    \/ EraseArm

EraseCalls ==
    \/ \E r \in BOOLEAN : Erase(r)
    \/ EraseSteps

BackupCalls ==
    \/ \E ks \in BackupInputs, add \in AddInputs : BackupAndSetup(ks, add)
    \/ BackupSet
    \/ EraseSteps

ExitCalls ==
    \/ ExitHook
    \/ ExitClear

SaveSteps ==
    \E t \in Threads :
        \/ SaveMkdir(t)
        \/ SaveOpen(t)
        \/ SaveWrite(t)
        \/ SaveRename(t)

LoopSteps ==
    \E t \in LoopIds :
        \/ LoopWhile(t)
        \/ LoopWake(t)
        \/ LoopDue(t)
        \/ LoopExec(t)
        \/ LoopClear(t)
        \/ LoopSleepRem(t)

SubCalls ==
    \/ GetSubHead
    \/ GetSubNozzle
    \/ DropHead
    \/ NozzleSet
    \/ NozzleDelete

FailSteps ==
    \E t \in Threads :
        \/ SaveFail(t)
        \/ SaveExcept(t)

\* The key and the defaults the accessors are called with.
CallKey == "a"
Defaults == {Null, "i:1"}

ObjectCalls ==
    \/ \E v \in ObjectValues : CallSet(SubKey, v)
    \/ \E d \in Defaults : CallGet(SubKey, d)
    \/ CallDelete(SubKey)
    \/ \E v \in ObjectArgs : CallSetAsList(SubKey, v)
    \/ \E v \in ObjectArgs : CallSetAsSubPocket(SubKey, v)
    \/ MutatePassed
    \/ \E d \in SubDefaults : CallGetAsSubPocket(SubKey, d)
    \/ \E p \in SubDefaults \cup Pockets : CallInit(p)

LockCalls ==
    \/ \E d \in Defaults : GetBegin(SubKey, d)
    \/ GetEnd
    \/ \E v \in {"i:1", "d:{}"} : SetBegin(SubKey, v)
    \/ SetEnd
    \/ HeadSetBegin
    \/ HeadSetEnd

CopyCalls ==
    \/ SetBegin("a", "l:[1]")
    \/ SetEnd
    \/ MutatePassed
    \/ GetSubHeadAfter
    \/ HeadSetBegin
    \/ HeadSetEnd

CopyLoopSteps ==
    \E t \in LoopIds :
        \/ LoopWhile(t)
        \/ LoopWake(t)
        \/ LoopDue(t)
        \/ LockGetAll(t)
        \/ CopyFirst(t)
        \/ CopyRest(t)
        \/ LoopClear(t)
        \/ LoopSleepRem(t)

LockLoopSteps ==
    \E t \in LoopIds :
        \/ LoopWhile(t)
        \/ LoopWake(t)
        \/ LoopDue(t)
        \/ LockGetAll(t)
        \/ CopyDone(t)
        \/ LoopClear(t)
        \/ LoopSleepRem(t)

AccessorCalls ==
    \/ \E v \in PyValues : CallSet(CallKey, v)
    \/ \E d \in Defaults : CallGet(CallKey, d)
    \/ MutateReturned
    \/ \E ty \in Types, v \in PyValues : CallSetAs(ty, CallKey, v)
    \/ \E ty \in Types, d \in Defaults : CallGetAs(ty, CallKey, d)

Next ==
    \/ Tick
    \/ ChangeCalls
    \/ ForceSave
    \/ StopCalls
    \/ EraseCalls
    \/ BackupCalls
    \/ ExitCalls
    \/ SubCalls
    \/ SignalCalls
    \/ AccessorCalls
    \/ ObjectCalls
    \/ LockCalls
    \/ LockLoopSteps
    \/ CopyCalls
    \/ CopyLoopSteps
    \/ SaveSteps
    \/ FailSteps
    \/ LoopSteps

\* Every use of one instance by one caller thread.
Spec == Init /\ [][Next]_vars

\* The background thread flushes what the caller changes.
NextLoop ==
    \/ Tick
    \/ ChangeCalls
    \/ SaveSteps
    \/ LoopSteps

SpecLoop == Init /\ [][NextLoop]_vars

\* The caller changes values and saves; the background thread and the exit
\* hook flush.
NextSave ==
    \/ Tick
    \/ ChangeCalls
    \/ ForceSave
    \/ ExitCalls
    \/ SaveSteps
    \/ LoopSteps

SpecSave == Init /\ [][NextSave]_vars

\* The caller sets one value, stops and erases; the background threads and
\* the exit hook flush.
NextStop ==
    \/ Tick
    \/ \E v \in Values : Set("a", v)
    \/ StopCalls
    \/ EraseCalls
    \/ ExitCalls
    \/ SaveSteps
    \/ LoopSteps

SpecStop == Init /\ [][NextStop]_vars

\* The caller changes values and calls backupAndSetup on a store that was
\* not stopped before.
FirstBackup ==
    /\ ~finished
    /\ \E ks \in BackupInputs, add \in AddInputs : BackupAndSetup(ks, add)

NextBackup ==
    \/ Tick
    \/ ChangeCalls
    \/ FirstBackup
    \/ BackupSet
    \/ EraseSteps
    \/ SaveSteps
    \/ LoopSteps

SpecBackup == Init /\ [][NextBackup]_vars

\* One flusher, the background thread, in a process that can be killed at
\* any step and started again.
NextCrash ==
    \/ Tick
    \/ ChangeCalls
    \/ SaveSteps
    \/ LoopSteps
    \/ Crash
    \/ Reboot

SpecCrash == Init /\ [][NextCrash]_vars

\* The caller uses the accessors of Pocket on one key while time passes.
NextPocket ==
    \/ Tick
    \/ AccessorCalls

SpecPocket == Init /\ [][NextPocket]_vars

\* One flusher in a process that can be killed and constructed again, on a
\* file that is absent, whole, cut short or unreadable.
NextLoad ==
    \/ Tick
    \/ ChangeCalls
    \/ SaveSteps
    \/ LoopSteps
    \/ Crash
    \/ Reboot
    \/ RebootUnreadable

SpecLoad == Init /\ [][NextLoad]_vars

\* The disk fails under the saves of the caller and of the background thread.
NextFail ==
    \/ Tick
    \/ \E v \in Values : Set("a", v)
    \/ ForceSave
    \/ SaveSteps
    \/ FailSteps
    \/ LoopSteps

SpecFail == Init /\ [][NextFail]_vars

\* The caller obtains sub-pockets two levels deep and changes the inner one;
\* the background thread flushes.
NextSub ==
    \/ Tick
    \/ SubCalls
    \/ SaveSteps
    \/ LoopSteps

SpecSub == Init /\ [][NextSub]_vars

(***************************************************************************)
(* Properties.                                                             *)
(***************************************************************************)
\* The caller sets, deletes and reads one key with lists, dictionaries and
\* Pockets, and changes the objects it passed.
NextObject ==
    \/ Tick
    \/ ObjectCalls

SpecObject == Init /\ [][NextObject]_vars

\* The caller reads and sets a key and changes a sub-pocket, each call in
\* two steps, while the background thread copies the store and writes it.
NextLock ==
    \/ Tick
    \/ LockCalls
    \/ GetSubHead
    \/ LockLoopSteps
    \/ SaveSteps

SpecLock == Init /\ [][NextLock]_vars

\* The caller never changes a value: it stops, erases and restarts, and the
\* background threads run.
NextIdle ==
    \/ Tick
    \/ StopCalls
    \/ EraseCalls
    \/ SaveSteps
    \/ LoopSteps

SpecIdle == Init /\ [][NextIdle]_vars

\* The disk fails under the flushes of the background thread and of the exit
\* hook.
NextFlush ==
    \/ Tick
    \/ \E v \in Values : Set("a", v)
    \/ ExitCalls
    \/ SaveSteps
    \/ FailSteps
    \/ LoopSteps

SpecFlush == Init /\ [][NextFlush]_vars

\* The caller obtains sub-pockets, erases the store once and goes on
\* changing the sub-pockets it holds; the background threads flush.
FirstErase ==
    /\ ~finished
    /\ \E r \in BOOLEAN : Erase(r)

NextStale ==
    \/ Tick
    \/ SubCalls
    \/ HeadSetBegin
    \/ HeadSetEnd
    \/ FirstErase
    \/ EraseSteps
    \/ SaveSteps
    \/ LoopSteps

SpecStale == Init /\ [][NextStale]_vars

\* Signals are connected, disconnected and emitted.
NextSignal ==
    \/ Tick
    \/ SignalCalls

SpecSignal == Init /\ [][NextSignal]_vars

\* The caller stores a list and obtains a sub-pocket, then changes both
\* objects, while the background thread copies the store key by key.
NextCopy ==
    \/ Tick
    \/ CopyCalls
    \/ CopyLoopSteps
    \/ SaveSteps

SpecCopy == Init /\ [][NextCopy]_vars

\* stop() has returned and _start() was not called since.
StopReturned == ~running /\ pc[Caller] \notin {"stop_wait", "erase_wait"}

\* A thread is inside __callExecuteAction.
Flushing(t) ==
    pc[t] \in {"exec", "s_mkdir", "s_open", "s_write", "s_rename", "s_except", "clear"}

\* The step in which loop thread t begins a flush (takes its snapshot).
FlushBegins(t) == pc[t] = "exec" /\ pc'[t] \in {"s_mkdir", "s_open"}

\* c is the complete JSON text of one dictionary.
Whole(c) == \E d \in Dicts : c = JsonDump(d)

\* What the preferences path shows has changed.
TargetChanged == path'.target # path.target \/ TargetContent' # TargetContent

\* C1: once stop() has returned, and until _start() is called, every
\* background loop has exited (so none can invoke the flush action).
C1_StoppedMeansExited ==
    StopReturned => \A t \in LoopIds : pc[t] = "dead"

\* C2: after erase(restart_after_erase=False) has returned, and while the
\* caller only reads or mutates the store, the preferences file is absent.
C2_ErasedStaysAbsent ==
    sinceErase = "clean" => path.target = NoFile

\* C3: after erase(restart_after_erase=False), with no forceSave() since,
\* neither the background loop nor the exit hook brings the file back.
C3_NoResurrection ==
    sinceErase \in {"clean", "exit"} => path.target = NoFile

\* C4: with the loop running, no change is left behind unflushed: whenever
\* the timer is disarmed and the loop is not inside a flush, the file holds
\* the in-memory state (a change that is not in the file has a flush due).
C4_NoChangeDropped ==
    (/\ running
     /\ last_timer_check = None
     /\ \A t \in LoopIds : ~Flushing(t))
    => FileHolds(prefs)

\* C5: killing the process at any step of a flush leaves the preferences
\* path as it was or holding the complete text of the flush's snapshot, and
\* the next start loads a whole file as it is.
C5_CrashSafe ==
    [][ /\ TargetChanged =>
              \E t \in Threads :
                  /\ pc[t] = "s_rename"
                  /\ path'.target # NoFile
                  /\ TargetContent' = JsonDump(snap[t])
        /\ (pc[Caller] = "crashed" /\ pc'[Caller] = "idle" /\ path.target # NoFile
                /\ Whole(TargetContent))
              => JsonDump(prefs') = TargetContent ]_vars

\* C5: the process was killed while ".new" was half written, with a whole
\* preferences file in place.
C5_Witness ==
    /\ pc[Caller] = "crashed"
    /\ path.temp # NoFile
    /\ ~Whole(ino[path.temp])
    /\ ino[path.temp] # <<>>
    /\ path.target # NoFile
    /\ Whole(TargetContent)

\* C6: under every interleaving of flushes, whenever what the preferences
\* path shows changes, it shows the complete text of one dictionary.
C6_NeverPartial ==
    [][TargetChanged => (path'.target = NoFile \/ Whole(TargetContent'))]_vars

\* C7: the background loop begins a flush no earlier than the interval
\* after the most recent change event.
C7_Debounce ==
    [][\A t \in LoopIds : FlushBegins(t) => sinceChange >= Interval]_vars

\* C8: two consecutive flushes by the background loop begin at least the
\* interval apart.
C8_FlushesApart ==
    [][\A t \in LoopIds : FlushBegins(t) => sinceFlush >= Interval]_vars

\* backupAndSetup: the store its arguments and the values it saved call for.
BackupResult ==
    [k \in Keys |-> IF toAdd[k] # Absent THEN toAdd[k] ELSE saved[k]]

\* C9: when backupAndSetup returns, the file holds the in-memory store,
\* which has the backed-up keys with their old values (null when absent),
\* the added settings, and nothing else.
C9_BackupResult ==
    [][(op = "bas" /\ pc[Caller] = "s_rename" /\ pc'[Caller] = "idle")
         => (prefs' = BackupResult
             /\ path'.target # NoFile
             /\ TargetContent' = JsonDump(prefs'))]_vars

\* C10: inside backupAndSetup, from the removal of the file to the final
\* forceSave(), no flush writes the file.
C10_NoIntermediateFlush ==
    (op = "bas" /\ pc[Caller] \in {"erase_reset", "erase_load", "erase_start",
                                   "erase_arm", "bas_set"})
    => path.target = NoFile

\* C11: when erase() with restart returns, whatever calls came before, the
\* in-memory store is empty and a background loop is running.
C11_EraseRestarts ==
    [][(op = "erase" /\ pc[Caller] = "erase_arm" /\ pc'[Caller] = "idle")
         => (/\ prefs' = EmptyDict
             /\ running'
             /\ \E t \in LoopIds : pc'[t] # "dead")]_vars

\* C12: when the exit hook completes, in any state of the loop and of the
\* timer, the timer is disarmed and the file holds the in-memory state.
C12_ExitHookFlushes ==
    [][(pc[Caller] = "exit_clear" /\ pc'[Caller] = "exited")
         => (last_timer_check' = None /\ FileHolds(prefs)')]_vars

\* In this step a sub-pocket changed the dictionary it shares with the root.
SubMutates == sub.attached /\ sub'.dict # sub.dict

\* C13: a mutation of a sub-pocket, at either depth, shows in the root
\* store under SubKey and arms the root's timer.
C13_SubPropagates ==
    [][SubMutates => (prefs'[SubKey] = sub'.dict /\ last_timer_check' = 0)]_vars

\* In this step a step of thread t's save raises.
Fails(t) == pc[t] # "s_except" /\ pc'[t] = "s_except"

\* In this step thread t's failed save returns.
FailedSaveReturns(t) == pc[t] = "s_except" /\ pc'[t] # "s_except"

\* C14: a step of a save that fails, in forceSave() or in the loop, changes
\* neither the in-memory store nor what the preferences path shows, and the
\* save returns to its caller as a save that worked does.
C14_FailedSaveContained ==
    [][\A t \in Threads :
          /\ (Fails(t) \/ FailedSaveReturns(t))
                => (prefs' = prefs /\ ~TargetChanged)
          /\ FailedSaveReturns(t) => pc'[t] = AfterSave(t)]_vars

\* C14: forceSave() failed after it wrote a part of ".new", with a whole
\* preferences file in place.
C14_Witness ==
    /\ pc[Caller] = "s_except"
    /\ op = "forceSave"
    /\ path.temp # NoFile
    /\ ~Whole(ino[path.temp])
    /\ path.target # NoFile
    /\ Whole(TargetContent)

\* In this step the constructor runs (in a new process).
Constructs == pc[Caller] = "crashed" /\ pc'[Caller] # "crashed"

\* The file is absent or its text cannot be decoded.
BadFile == path.target = NoFile \/ ~JsonValid(TargetContent)

\* C15: construction on a file that is absent, unreadable or undecodable
\* returns with an empty store and the loop started, and fires no change
\* event.
C15_LoadFallsBack ==
    [][(Constructs /\ (BadFile \/ RebootUnreadable))
         => (/\ \A k \in Keys : prefs'[k] = Absent
             /\ pc'[Caller] = "idle"
             /\ running'
             /\ \E t \in LoopIds : pc'[t] = "while"
             /\ sinceChange' = sinceChange)]_vars

\* C15: the process is gone and the file in place is cut short.
C15_Witness ==
    /\ pc[Caller] = "crashed"
    /\ path.target # NoFile
    /\ ~JsonValid(TargetContent)

\* C16: when forceSave() returns, the file holds the text of the snapshot it
\* took, and loading that text gives the snapshot back.
C16_ForceSaveRoundTrip ==
    [][(op = "forceSave" /\ pc[Caller] = "s_rename" /\ pc'[Caller] = "idle")
         => (/\ path'.target # NoFile
             /\ TargetContent' = JsonDump(snap[Caller])
             /\ JsonValid(TargetContent')
             /\ JsonLoad(TargetContent') = snap[Caller])]_vars

\* In this step the caller's call of the accessor named n returns.
Returns(n) == call' # call /\ call'.name = n

\* C17: set(k, v) with v the value already stored at k changes neither the
\* store nor the timer's timestamp and fires no change event.
C17_EqualSetIsNoOp ==
    [][(Returns("set") /\ prefs[call'.key] = call'.arg)
         => (/\ prefs' = prefs
             /\ ~call'.fired
             /\ last_timer_check' = last_timer_check
             /\ sinceChange' = sinceChange)]_vars

\* C17: a set() fired no event, and the timer armed earlier kept its age.
C17_Witness ==
    /\ call.name = "set"
    /\ ~call.fired
    /\ prefs[call.key] = call.arg
    /\ last_timer_check = MaxAge

\* C18: get(k) right after set(k, v) equals v; get of an absent key returns
\* the default; changing the returned object leaves the stored value as it
\* was.
C18_GetReturnsCopy ==
    [][/\ (call.name = "set" /\ Returns("get") /\ call'.key = call.key)
            => PyEq(call'.ret, call.arg)
       /\ (Returns("get") /\ prefs[call'.key] = Absent)
            => call'.ret = call'.arg
       /\ (call.name = "get" /\ Returns("mutate"))
            => (prefs' = prefs /\ prefs'[call.key] = call.ret)]_vars

\* C18: the caller changed the list get() returned, and the store holds the
\* list as it was.
C18_Witness ==
    /\ call.name = "mutate"
    /\ call.ret = "l:[1, 3]"
    /\ prefs[call.key] = "l:[1]"

C20_TypedReadNeverRaises ==
    call.name = "getAs" => call.ret \notin Raises

\* C29: at most one background loop thread is alive at any moment.
C29_OneLoopThread ==
    Cardinality({t \in LoopIds : pc[t] # "dead"}) <= 1

\* C30: stop() returns when the loop has slept at most one poll interval
\* since the call.
C30_StopWithinPoll ==
    StopWaits => sinceStop <= SLEEP_INTERVAL

\* C21: a get(k) that follows a successful typed write of v to k returns
\* the cast form of v, of the target type.
C21_TypedRoundTrip ==
    [][(/\ call.name = "setAs"
        /\ call.ret \notin Raises
        /\ Returns("get")
        /\ call'.key = call.key)
         => call'.ret = Cast(call.arg, call.type)]_vars

\* The caller's call fired the change event of the root store, once.
EventFired == last_timer_check' = 0 /\ sinceChange' = 0

\* The caller's call left the store and the timer as they were.
NothingChanged ==
    /\ prefs' = prefs
    /\ last_timer_check' = last_timer_check
    /\ sinceChange' = sinceChange

\* prefs' is prefs with key k holding v.
Stored(k, v) == prefs' = [prefs EXCEPT ![k] = v]

C23_Delete ==
    [][Returns("delete") =>
         IF prefs[call'.key] # Absent
         THEN Stored(call'.key, Absent) /\ EventFired /\ call'.fired
         ELSE NothingChanged /\ ~call'.fired]_vars

\* C23: a delete of an absent key left a timer armed earlier at its age.
C23_Witness ==
    /\ call.name = "delete"
    /\ ~call.fired
    /\ prefs[call.key] = Absent
    /\ last_timer_check = MaxAge

\* C24: setAsSubPocket of a non-Pocket and setAsList of a non-list raise
\* ValueError, change nothing and fire no event; with a Pocket or a list
\* they do what set does with the Pocket's dictionary or the list.
C24_TypeCheckedSetters ==
    [][/\ Returns("setAsList") =>
            IF call'.arg \in Lists
            THEN /\ call'.ret = ""
                 /\ IF Differs(call'.key, call'.arg)
                    THEN Stored(call'.key, call'.arg) /\ EventFired
                    ELSE NothingChanged
            ELSE call'.ret = "ValueError" /\ NothingChanged /\ ~call'.fired
       /\ Returns("setAsSubPocket") =>
            IF call'.arg \in Pockets
            THEN /\ call'.ret = ""
                 /\ IF Differs(call'.key, PocketDict(call'.arg))
                    THEN Stored(call'.key, PocketDict(call'.arg)) /\ EventFired
                    ELSE NothingChanged
            ELSE call'.ret = "ValueError" /\ NothingChanged /\ ~call'.fired]_vars

\* C24: setAsSubPocket raised ValueError for a dictionary on a store that
\* holds a value and whose timer kept its age.
C24_Witness ==
    /\ call.name = "setAsSubPocket"
    /\ call.arg = "d:{}"
    /\ call.ret = "ValueError"
    /\ prefs[call.key] = "l:[1]"
    /\ last_timer_check = MaxAge

\* C25: Pocket(pocket) succeeds and gives a Pocket that shares nothing with
\* the original.
C25_InitWithPocket ==
    (call.name = "init" /\ call.arg \in Pockets)
        => (call.ret = call.arg /\ ~call.shared)

\* C26: the store's contents change only in steps that fire its change
\* event.
C26_NoReferenceHeld ==
    [][prefs' # prefs => EventFired]_vars

\* C27: a thread that reads or writes the mapping tree of the root store
\* holds the store's lock, and no two threads are in the tree at once.
C27_AccessUnderLock ==
    /\ \A t \in Threads : Accessing(t) => lock = t
    /\ Cardinality({t \in Threads : Accessing(t)}) <= 1

\* C28: a thread that is in a system call of a flush does not hold the
\* store's lock.
C28_NoLockDuringIO ==
    \A t \in Threads : InIO(t) => lock # t

\* C28: the caller is inside set(), holding the lock, while the background
\* thread is between the writes of a flush.
C28_Witness ==
    /\ pc[Caller] = "in_set"
    /\ lock = Caller
    /\ \E t \in LoopIds : pc[t] = "s_write" /\ off[t] > 0

\* C33: in a run without a change event no loop thread enters a flush, and
\* the preferences path shows what it showed at construction or, after an
\* erase, nothing.
C33_ArmedOnlyByChange ==
    [][ /\ \A t \in LoopIds : ~FlushBegins(t)
        /\ TargetChanged => path'.target = NoFile ]_vars

\* C40: a loop thread that has seen the timer armed goes on to a flush or
\* to a sleep; it never ends.
C40_LoopNeverDies ==
    [][\A t \in LoopIds : (running /\ pc[t] = "armed") => pc'[t] # "dead"]_vars

\* C37: no step of forceSave(), from its call to its return, changes the
\* timer or the running flag.
C37_ForceSaveKeepsTimer ==
    [][ (pc'[Caller] # pc[Caller] /\ (op = "forceSave" \/ op' = "forceSave"))
            => (last_timer_check' = last_timer_check /\ running' = running) ]_vars

\* C37: forceSave() has written its whole snapshot to ".new" while the timer,
\* armed by a change before the call, is still armed.
C37_Witness ==
    /\ op = "forceSave"
    /\ pc[Caller] = "s_rename"
    /\ last_timer_check >= 1
    /\ sinceChange >= 1
    /\ path.temp # NoFile
    /\ ino[path.temp] = JsonDump(prefs)

\* Thread t runs __callExecuteAction: a loop thread, or the exit hook.
Scheduled(t) == t \in LoopIds \/ op = "exit"

\* C38: a flush by the loop or by the exit hook, when its save returns, failed
\* or not, goes on to clear the timer, and that step leaves the timer
\* disarmed; no step of the flush changes the in-memory store; a disarmed
\* timer is armed again only by a change event, and the loop goes to a flush
\* only on an armed timer.
C38_FlushEndsDisarmed ==
    [][ /\ \A t \in Threads :
              /\ (Scheduled(t) /\ pc[t] \in {"s_rename", "s_except"}
                      /\ pc'[t] \notin {"s_rename", "s_except"})
                    => pc'[t] \in {"clear", "exit_clear"}
              /\ (pc[t] \in {"clear", "exit_clear"} /\ pc'[t] # pc[t])
                    => last_timer_check' = None
              /\ (Flushing(t) /\ pc'[t] # pc[t]) => prefs' = prefs
              /\ (pc[t] = "armed" /\ pc'[t] = "exec") => last_timer_check # None
        /\ (last_timer_check = None /\ last_timer_check' # None)
              => sinceChange' = 0 ]_vars

\* C38: a flush of the loop has failed with a part of ".new" written and has
\* ended: the timer is disarmed, the loop is back in its sleep, and the file
\* does not hold the store.
C38_Witness ==
    /\ pc[Caller] = "idle"
    /\ \A t \in LoopIds : pc[t] \in {"sleep", "dead"}
    /\ last_timer_check = None
    /\ path.temp # NoFile
    /\ ~Whole(ino[path.temp])
    /\ prefs["a"] # Absent
    /\ ~FileHolds(prefs)

\* C34: the step that ends a flush of the loop leaves the timer disarmed;
\* a disarmed timer is armed again only by a change event; and while the
\* timer is disarmed the loop begins no flush and what the preferences path
\* shows does not change.
C34_NoFlushWithoutChange ==
    [][ /\ \A t \in LoopIds :
              /\ (pc[t] = "clear" /\ pc'[t] # "clear") => last_timer_check' = None
              /\ last_timer_check = None => ~FlushBegins(t)
        /\ (last_timer_check = None /\ last_timer_check' # None)
              => sinceChange' = 0
        /\ (last_timer_check = None /\ \A t \in LoopIds : ~Flushing(t))
              => ~TargetChanged ]_vars

\* C34: the loop has flushed a change, and more than an interval has gone by
\* since without a change event: the timer is disarmed, the loop is asleep
\* and the file holds the store.
C34_Witness ==
    /\ last_timer_check = None
    /\ sinceFlush = Interval
    /\ sinceChange = Interval
    /\ prefs["a"] # Absent
    /\ FileHolds(prefs)
    /\ \A t \in LoopIds : pc[t] \in {"sleep", "dead"}

\* In this step thread t's os.rename runs and __save goes on to its return.
Renames(t) == pc[t] = "s_rename" /\ pc'[t] \notin {"s_rename", "s_except"}

\* C35: when a flush renames, the directory exists and ".new" holds the
\* complete text of the flush's snapshot, and after the rename ".new" does
\* not exist.
C35_RenameAfterWholeWrite ==
    [][\A t \in Threads :
          Renames(t) => /\ dirExists
                        /\ path.temp # NoFile
                        /\ ino[path.temp] = JsonDump(snap[t])
                        /\ path'.temp = NoFile]_vars

\* C36: a step that changes the dictionary of a sub-pocket the root no
\* longer holds changes neither the root's contents, nor the snapshot of a
\* flush, nor what the preferences path shows.
C36_StaleSubStore ==
    [][ (~sub.attached /\ ~sub'.attached /\ sub'.dict # sub.dict)
            => (prefs' = prefs /\ snap' = snap /\ ~TargetChanged) ]_vars

\* C36: erase() has reset the root, and the caller is inside set() of a
\* sub-pocket it obtained before, about to add a key to it.
C36_Witness ==
    /\ pc[Caller] = "in_sub"
    /\ sub.head = "held"
    /\ ~sub.attached
    /\ sub.dict = "d:{}"
    /\ prefs[SubKey] = Absent

\* Connector c is a slot of signal s.
Connected(s, c) ==
    c \in sig.signals[s] \cup sig.functions[s] \cup sig.methods[s]

\* C31: disconnect and disconnectAll raise nothing, and a disconnect of a
\* connector that is not connected leaves every signal's slots as they were.
C31_DisconnectIdempotent ==
    [][ (sig' # sig /\ sig'.op \in {"disconnect", "disconnectAll"})
            => /\ sig'.raised = "none"
               /\ (sig'.op = "disconnect" /\ ~Connected(sig'.at, sig'.conn))
                     => /\ sig'.functions = sig.functions
                        /\ sig'.methods = sig.methods
                        /\ sig'.signals = sig.signals ]_vars

\* C32: every emit returns, whatever signals are connected to one another.
C32_EmitTerminates ==
    sig.op = "emit" => sig.raised = "none"

\* C39: the copy a flush takes of the store is the store as it was at one
\* instant: as it was when the copy read its first key, or as it is when
\* the copy reads its last.
C39_ConsistentSnapshot ==
    [][\A t \in LoopIds :
          (pc[t] = "s_copy_rest" /\ pc'[t] # "s_copy_rest")
              => (snap'[t] = prefs \/ snap'[t] = snap[t])]_vars

====
